---- MODULE Spec2Model ----
(***************************************************************************)
(* Lunisolar conversion engine (src/data/lunisolar_v2.py).                 *)
(*                                                                         *)
(* Time.  A UTC instant is a whole number of hours counted from            *)
(* 0001-01-01T00:00 on the proleptic Gregorian calendar, shifted so that   *)
(* instant \div 24 is the date's ordinal as Python's date.toordinal()      *)
(* gives it (0001-01-01 is ordinal 1).  A calendar date is its ordinal.    *)
(*                                                                         *)
(* A MonthPeriod is a record; a list of periods is a sequence, so the      *)
(* code's 0-based position i is the sequence position i + 1.               *)
(***************************************************************************)
EXTENDS Integers, Sequences, FiniteSets, TLC

VARIABLES
    pc,               \* position of the running operation
    sky,              \* the ephemeris in force: offset of the lunations, in hours
    request,          \* <<>> or <<[local, tz]>>: local civil time and UTC offset
    window,           \* <<>> or <<window_start, window_end>>
    new_moons,        \* list of new-moon instants (UTC)
    principal_terms,  \* list of PrincipalTerm records
    periods,          \* list of MonthPeriod records (mutated in place)
    anchor_solstice,  \* anchor handed to assign_month_numbers (-1: none yet)
    target_utc,       \* target instant (-1: none yet)
    target_period,    \* 0-based position of the period found (-1: none)
    lunar_day,        \* result of calculate_lunar_day (-1: none yet)
    lunar_year,       \* result of calculate_lunar_year (-1: none yet)
    result,           \* <<>> or <<the LunisolarDateDTO returned>>
    last,             \* <<>> or <<month, leap flag and period of the last result of a clean run>>
    error,            \* "" or the error raised
    call,             \* <<>> or <<a direct call of one function: name, arguments, result>>
    swallowed         \* the ephemeris queries whose exception was caught and logged

vars == <<pc, sky, request, window, new_moons, principal_terms, periods,
          anchor_solstice, target_utc, target_period, lunar_day, lunar_year,
          result, last, error, call, swallowed>>

----------------------------------------------------------------------------
(* Calendar arithmetic of Python's datetime, as used by the engine.        *)

IsLeapYear(y) == (y % 4 = 0) /\ ((y % 100 # 0) \/ (y % 400 = 0))

DaysBeforeYear(y) ==
    LET p == y - 1 IN p * 365 + (p \div 4) - (p \div 100) + (p \div 400)

DaysBeforeMonth(y, m) ==
    LET t == <<0, 31, 59, 90, 120, 151, 181, 212, 243, 273, 304, 334>>
    IN  t[m] + (IF m > 2 /\ IsLeapYear(y) THEN 1 ELSE 0)

\* date(y, m, d).toordinal()
Ymd2Ord(y, m, d) == DaysBeforeYear(y) + DaysBeforeMonth(y, m) + d

\* datetime(y, m, d, h) as an instant
At(y, m, d, h) == Ymd2Ord(y, m, d) * 24 + h

\* date.fromordinal(n).year
Ord2Year(n) ==
    LET n0   == n - 1
        n400 == n0 \div 146097
        r400 == n0 % 146097
        n100 == r400 \div 36524
        r100 == r400 % 36524
        n4   == r100 \div 1461
        r4   == r100 % 1461
        n1   == r4 \div 365
        year == n400 * 400 + 1 + n100 * 100 + n4 * 4 + n1
    IN  IF n1 = 4 \/ n100 = 4 THEN year - 1 ELSE year

\* datetime.year of an instant
YearOf(t) == Ord2Year(t \div 24)

----------------------------------------------------------------------------
(* TimezoneService                                                         *)

\* the fixed offset of China Standard Time, in hours
CstOffsetHours == 8

utc_to_cst_date(utc_datetime) == (utc_datetime + CstOffsetHours) \div 24

----------------------------------------------------------------------------
(* MonthBuilder                                                            *)

MonthPeriod(i, start_utc, end_utc) ==
    [index              |-> i,
     start_utc          |-> start_utc,
     end_utc            |-> end_utc,
     start_cst_date     |-> utc_to_cst_date(start_utc),
     end_cst_date       |-> utc_to_cst_date(end_utc),
     has_principal_term |-> FALSE,
     is_leap            |-> FALSE,
     month_number       |-> 0]

\* variant: the new moons are paired off instead of chained
build_month_periods_Paired(moons) ==
    [i \in 1..(Len(moons) \div 2) |-> MonthPeriod(i - 1, moons[2 * i - 1], moons[2 * i])]

build_month_periods(moons) ==
    [i \in 1..(Len(moons) - 1) |-> MonthPeriod(i - 1, moons[i], moons[i + 1])]

----------------------------------------------------------------------------
(* TermIndexer                                                             *)

PrincipalTerm(instant_utc, term_index) ==
    [instant_utc |-> instant_utc,
     cst_date    |-> utc_to_cst_date(instant_utc),
     term_index  |-> term_index]

\* variant: the end date is taken as part of the period
TermInPeriod_Closed(period, term) ==
    period.start_cst_date <= term.cst_date /\ term.cst_date <= period.end_cst_date

\* the condition of the inner loop of tag_principal_terms
TermInPeriod(period, term) ==
    period.start_cst_date <= term.cst_date /\ term.cst_date < period.end_cst_date

\* the inner loop: the first period the term falls in is tagged, then break
TagOneTerm(ps, term) ==
    LET hits == {i \in 1..Len(ps) : TermInPeriod(ps[i], term)}
    IN  IF hits = {} THEN ps
        ELSE LET first == CHOOSE i \in hits : \A j \in hits : i <= j
             IN  [ps EXCEPT ![first].has_principal_term = TRUE]

RECURSIVE TagFrom(_, _, _)
TagFrom(ps, terms, k) ==
    IF k > Len(terms) THEN ps
    ELSE TagFrom(TagOneTerm(ps, terms[k]), terms, k + 1)

tag_principal_terms(ps, terms) == TagFrom(ps, terms, 1)

----------------------------------------------------------------------------
(* LeapMonthAssigner                                                       *)

\* variant: the end instant is taken as part of the period
find_zi_month_Closed(ps, solstice) ==
    LET hits == {i \in 1..Len(ps) :
                    ps[i].start_utc <= solstice /\ solstice <= ps[i].end_utc}
    IN  IF hits = {} THEN -1
        ELSE (CHOOSE i \in hits : \A j \in hits : i <= j) - 1

\* 0-based position of the first period holding the solstice instant, or -1
find_zi_month(ps, solstice) ==
    LET hits == {i \in 1..Len(ps) :
                    ps[i].start_utc <= solstice /\ solstice < ps[i].end_utc}
    IN  IF hits = {} THEN -1
        ELSE (CHOOSE i \in hits : \A j \in hits : i <= j) - 1

\* variant: the month number is advanced without wrapping 12 to 1
ForwardStep_NoWrap(ps, i, current_month_number) ==
    IF ps[i].has_principal_term
    THEN [ps EXCEPT ![i].month_number = current_month_number + 1,
                    ![i].is_leap = FALSE]
    ELSE [ps EXCEPT ![i].month_number = current_month_number,
                    ![i].is_leap = TRUE]

\* variant: a leap month takes the number of the month that follows it
ForwardStep_LeapNext(ps, i, current_month_number) ==
    IF ps[i].has_principal_term
    THEN [ps EXCEPT ![i].month_number = (current_month_number % 12) + 1,
                    ![i].is_leap = FALSE]
    ELSE [ps EXCEPT ![i].month_number = (current_month_number % 12) + 1,
                    ![i].is_leap = TRUE]

\* one iteration of the forward pass on the period at sequence position i
ForwardStep(ps, i, current_month_number) ==
    IF ps[i].has_principal_term
    THEN [ps EXCEPT ![i].month_number = (current_month_number % 12) + 1,
                    ![i].is_leap = FALSE]
    ELSE [ps EXCEPT ![i].month_number = current_month_number,
                    ![i].is_leap = TRUE]

RECURSIVE ForwardPass(_, _, _)
ForwardPass(ps, i, current_month_number) ==
    IF i > Len(ps) THEN ps
    ELSE LET qs == ForwardStep(ps, i, current_month_number)
         IN  ForwardPass(qs, i + 1,
                         IF ps[i].has_principal_term
                         THEN qs[i].month_number ELSE current_month_number)

\* the Zi month is numbered 11, never leap
AssignZi(ps, zi) ==
    [ps EXCEPT ![zi + 1].month_number = 11, ![zi + 1].is_leap = FALSE]

\* variant: a period that already carries a number keeps it
assign_month_numbers_KeepAssigned(ps, solstice) ==
    LET zi    == find_zi_month(ps, solstice)
        fresh == ForwardPass(AssignZi(ps, zi), zi + 2, 11)
    IN  IF zi = -1 THEN ps
        ELSE [i \in 1..Len(ps) |->
                 IF ps[i].month_number # 0 THEN ps[i] ELSE fresh[i]]

\* variant: the numbering starts from a cleared list
assign_month_numbers_ClearFirst(ps, solstice) ==
    LET zi      == find_zi_month(ps, solstice)
        cleared == [i \in 1..Len(ps) |->
                       [ps[i] EXCEPT !.month_number = 0, !.is_leap = FALSE]]
    IN  IF zi = -1 THEN ps
        ELSE ForwardPass(AssignZi(cleared, zi), zi + 2, 11)

\* the period list after assign_month_numbers: unchanged when no Zi month is
\* found (the call raises before it writes), else the Zi month numbered 11
\* and every later period numbered by the forward pass
assign_month_numbers(ps, solstice) ==
    LET zi == find_zi_month(ps, solstice)
    IN  IF zi = -1 THEN ps
        ELSE ForwardPass(AssignZi(ps, zi), zi + 2, 11)

----------------------------------------------------------------------------
(* LunarMonthResolver                                                      *)

\* variant: the target's UTC date is compared instead of its CST date
find_period_for_datetime_UtcDate(ps, target) ==
    LET d    == target \div 24
        hits == {i \in 1..Len(ps) :
                    ps[i].start_cst_date <= d /\ d < ps[i].end_cst_date}
    IN  IF hits = {} THEN -1
        ELSE (CHOOSE i \in hits : \A j \in hits : i <= j) - 1

\* 0-based position of the first period holding the target's CST date, or -1
find_period_for_datetime(ps, target) ==
    LET d    == utc_to_cst_date(target)
        hits == {i \in 1..Len(ps) :
                    ps[i].start_cst_date <= d /\ d < ps[i].end_cst_date}
    IN  IF hits = {} THEN -1
        ELSE (CHOOSE i \in hits : \A j \in hits : i <= j) - 1

\* variant: months 11 and 12 are given the year their period starts in
calculate_lunar_year_NoCarry(period, anchor) == YearOf(period.start_utc)

calculate_lunar_year(period, anchor) ==
    IF period.month_number = 1 THEN YearOf(period.start_utc)
    ELSE IF period.month_number \in 2..10 THEN YearOf(period.start_utc)
    ELSE YearOf(period.start_utc) + 1

\* variant: the day count is returned as it is, without the clamp
calculate_lunar_day_Unclamped(target, period) ==
    (utc_to_cst_date(target) - period.start_cst_date) + 1

calculate_lunar_day(target, period) ==
    LET days_diff == (utc_to_cst_date(target) - period.start_cst_date) + 1
        capped    == IF days_diff < 30 THEN days_diff ELSE 30
    IN  IF capped > 1 THEN capped ELSE 1

----------------------------------------------------------------------------
(* The ephemeris (Skyfield, outside the repository) as the engine sees it: *)
(* lunations 29 d 12 h apart, the winter solstice of 2024 at 2024-12-21    *)
(* 09:00 UTC, a year of 365 d 6 h, and the solar terms spaced as the sun   *)
(* moves: principal terms 29 d 12 h apart after the winter solstice, near  *)
(* perihelion, and 31 d 10 h apart after the summer solstice.  The state   *)
(* variable sky shifts the lunations against the solar terms.              *)

LunationHours  == 29 * 24 + 12
SolarYearHours == 365 * 24 + 6

\* hours from a winter solstice to the 24 solar terms that start with it
SolarTermOffsets ==
    <<   0,  354,  708, 1063, 1418, 1777, 2136, 2501, 2866, 3237, 3608, 3983,
      4359, 4736, 5113, 5488, 5864, 6235, 6606, 6971, 7336, 7695, 8054, 8410>>

MoonEpoch     == At(2024, 12, 1, 6)
SolsticeEpoch == At(2024, 12, 21, 9)

\* the skies considered: the new moon of December 2024 on the 1st 14:00 CST
\* (the sky of 2024), on the 10th, the 11th, on the 21st at 11:00 and at
\* 20:00 CST, around the solstice at 17:00 CST on the 21st, and on the 22nd
\* at 02:00 CST, the lunations then in step with the winter's principal terms
Skies == {0, 216, 240, 477, 486, 492}

\* the events almanac.moon_phases yields: k even is a new moon (phase 0),
\* k odd a full moon (phase 2)
MoonPhaseInstant(k) == MoonEpoch + sky + k * (LunationHours \div 2)
MoonPhaseIndex(k)   == IF k % 2 = 0 THEN 0 ELSE 2

\* the events almanac_east_asia.solar_terms yields: n = 0 is the winter
\* solstice of 2024, whose Skyfield index is 18
SolarTermInstant(n) ==
    SolsticeEpoch + (n \div 24) * SolarYearHours + SolarTermOffsets[(n % 24) + 1]
SolarTermIndex(n)   == (18 + n) % 24

EventRange == -40..40

\* a set of consecutive event numbers as the list of them in time order
InOrder(S) ==
    LET first == CHOOSE x \in S : \A y \in S : x <= y
    IN  [i \in 1..Cardinality(S) |-> first + i - 1]

\* calculate_moon_phases(start, end): (timestamp, phase_index) of the new
\* and full moons in [start, end]
calculate_moon_phases(start, end) ==
    LET ks == {k \in EventRange :
                  start <= MoonPhaseInstant(k) /\ MoonPhaseInstant(k) <= end}
        ord == InOrder(ks)
    IN  [i \in 1..Len(ord) |-> <<MoonPhaseInstant(ord[i]), MoonPhaseIndex(ord[i])>>]

\* calculate_solar_terms(start, end): (timestamp, idx) of the solar terms
calculate_solar_terms(start, end) ==
    LET ns == {n \in EventRange :
                  start <= SolarTermInstant(n) /\ SolarTermInstant(n) <= end}
        ord == InOrder(ns)
    IN  [i \in 1..Len(ord) |-> <<SolarTermInstant(ord[i]), SolarTermIndex(ord[i])>>]

----------------------------------------------------------------------------
(* EphemerisService                                                        *)

\* raises: the query or the conversion of its events raises; the except
\* clause logs the error and returns the empty list
compute_new_moons(start, end, raises) ==
    LET IsNew(e) == e[2] = 0
        news     == SelectSeq(calculate_moon_phases(start, end), IsNew)
    IN  IF raises THEN <<>>
        ELSE [i \in 1..Len(news) |-> news[i][1]]

compute_principal_terms(start, end, raises) ==
    LET IsPrincipal(e) == e[2] % 2 = 0
        Number(idx)    == LET n == (idx \div 2) + 1 IN IF n > 12 THEN n - 12 ELSE n
        prin           == SelectSeq(calculate_solar_terms(start, end), IsPrincipal)
    IN  IF raises THEN <<>>
        ELSE [i \in 1..Len(prin) |-> PrincipalTerm(prin[i][1], Number(prin[i][2]))]

----------------------------------------------------------------------------
(* WindowPlanner                                                           *)

\* the winter solstice (season 3) in [Jan 1 of year, Jan 1 of year + 1), or -1
find_winter_solstice(year) ==
    LET found == {n \in EventRange :
                     /\ SolarTermIndex(n) = 18
                     /\ At(year, 1, 1, 0) <= SolarTermInstant(n)
                     /\ SolarTermInstant(n) < At(year + 1, 1, 1, 0)}
    IN  IF found = {} THEN -1
        ELSE SolarTermInstant(CHOOSE n \in found : \A m \in found : n <= m)

\* the window padding, in days
WindowPadDays == 30

\* variant: the bracket always starts at the solstice of the target's year
compute_window_CurrentYear(target) ==
    LET target_year == YearOf(target)
    IN  <<find_winter_solstice(target_year) - WindowPadDays * 24,
          find_winter_solstice(target_year + 1) + WindowPadDays * 24>>

compute_window(target) ==
    LET target_year      == YearOf(target)
        solstice_current == find_winter_solstice(target_year)
        solstice_prev    == find_winter_solstice(target_year - 1)
        solstice_next    == find_winter_solstice(target_year + 1)
        anchor_start     == IF target >= solstice_current
                            THEN solstice_current ELSE solstice_prev
        anchor_end       == IF target >= solstice_current
                            THEN solstice_next ELSE solstice_current
    IN  <<anchor_start - WindowPadDays * 24, anchor_end + WindowPadDays * 24>>

----------------------------------------------------------------------------
(* TimezoneHandler                                                         *)

\* the timezone argument of a request r: the IANA name r.zone of a zone
\* r.tz hours from UTC, or, with r.zone = "hours", the number r.tz itself
IanaZones == {"Asia/Shanghai", "Asia/Ho_Chi_Minh"}

\* TimezoneHandler(utc_offset): timezone(timedelta(hours=utc_offset)) raises
\* TypeError when utc_offset is a str
TimezoneHandler(zone, tz) ==
    IF zone \in IanaZones THEN [error |-> "TypeError", utc_offset |-> 0]
    ELSE [error |-> "", utc_offset |-> tz]

\* variant: the local civil time is relabelled as UTC
local_to_utc_Relabelled(local, tz) == local

\* local civil time at UTC offset tz (hours) as a UTC instant
local_to_utc(local, tz) == local - tz

----------------------------------------------------------------------------
(* SexagenaryEngine.  The characters of the two tables are written by      *)
(* their romanised names; a (stem, branch, cycle) tuple is a record.       *)

HEAVENLY_STEMS ==
    <<"jia", "yi", "bing", "ding", "wu", "ji", "geng", "xin", "ren", "gui">>

EARTHLY_BRANCHES ==
    <<"zi", "chou", "yin", "mao", "chen", "si",
      "wu", "wei", "shen", "you", "xu", "hai">>

\* next((i for i, (char, ...) in enumerate(HEAVENLY_STEMS) if char == c), 0)
StemIndexOf(c) ==
    LET hits == {i \in 1..Len(HEAVENLY_STEMS) : HEAVENLY_STEMS[i] = c}
    IN  IF hits = {} THEN 0 ELSE (CHOOSE i \in hits : TRUE) - 1

get_stem_branch(cycle_number) ==
    LET stem_index   == (cycle_number - 1) % 10
        branch_index == (cycle_number - 1) % 12
    IN  [stem         |-> HEAVENLY_STEMS[stem_index + 1],
         branch       |-> EARTHLY_BRANCHES[branch_index + 1],
         stem_index   |-> stem_index + 1,
         branch_index |-> branch_index + 1]

\* variant: the remainder truncates, and is not brought back into 1..60
ganzhi_year_Truncated(year) ==
    LET year_cycle == (IF year >= 4 THEN (year - 4) % 60 ELSE -((4 - year) % 60)) + 1
    IN  [stem   |-> get_stem_branch(year_cycle).stem,
         branch |-> get_stem_branch(year_cycle).branch,
         cycle  |-> year_cycle]

ganzhi_year(year) ==
    LET c0         == ((year - 4) % 60) + 1
        year_cycle == IF c0 <= 0 THEN c0 + 60 ELSE c0
    IN  [stem   |-> get_stem_branch(year_cycle).stem,
         branch |-> get_stem_branch(year_cycle).branch,
         cycle  |-> year_cycle]

\* the first position of the 60-cycle with this stem and branch (1-based
\* indices), or the fallback 1 when the loop finds none
calculate_cycle_from_stem_branch(stem_idx, branch_idx) ==
    LET hits == {cycle \in 1..60 : /\ (cycle - 1) % 10 = stem_idx - 1
                                   /\ (cycle - 1) % 12 = branch_idx - 1}
    IN  IF hits = {} THEN 1
        ELSE CHOOSE cycle \in hits : \A other \in hits : cycle <= other

\* year stem index (1-based) -> stem index of the first month
mapping_first_month_stem == <<3, 5, 7, 9, 1, 3, 5, 7, 9, 1>>

\* variant: the first month is given the Rabbit branch
ganzhi_month_BranchShift(year, lunar_month) ==
    LET year_stem_idx        == StemIndexOf(ganzhi_year(year).stem) + 1
        first_month_stem_idx == mapping_first_month_stem[year_stem_idx]
        month_stem_idx       == ((first_month_stem_idx - 1 + (lunar_month - 1)) % 10) + 1
        b0                   == (lunar_month + 3) % 12
        month_branch_idx     == IF b0 = 0 THEN 12 ELSE b0
    IN  [stem   |-> HEAVENLY_STEMS[month_stem_idx],
         branch |-> EARTHLY_BRANCHES[month_branch_idx],
         cycle  |-> calculate_cycle_from_stem_branch(month_stem_idx, month_branch_idx)]

ganzhi_month(year, lunar_month) ==
    LET year_stem_idx        == StemIndexOf(ganzhi_year(year).stem) + 1
        first_month_stem_idx == mapping_first_month_stem[year_stem_idx]
        month_stem_idx       == ((first_month_stem_idx - 1 + (lunar_month - 1)) % 10) + 1
        b0                   == (lunar_month + 2) % 12
        month_branch_idx     == IF b0 = 0 THEN 12 ELSE b0
    IN  [stem   |-> HEAVENLY_STEMS[month_stem_idx],
         branch |-> EARTHLY_BRANCHES[month_branch_idx],
         cycle  |-> calculate_cycle_from_stem_branch(month_stem_idx, month_branch_idx)]

\* datetime(4, 1, 31).date(), the day counted as cycle 1
reference_date_utc == Ymd2Ord(4, 1, 31)

\* variant: the days are counted on the local calendar date
ganzhi_day_LocalDate(target_local, tz) ==
    LET days_diff == (target_local \div 24) - reference_date_utc
        day_cycle == (days_diff % 60) + 1
    IN  [stem   |-> get_stem_branch(day_cycle).stem,
         branch |-> get_stem_branch(day_cycle).branch,
         cycle  |-> day_cycle]

\* target_local: a local civil time at UTC offset tz
ganzhi_day(target_local, tz) ==
    LET target       == local_to_utc(target_local, tz)
        days_diff    == (target \div 24) - reference_date_utc
        day_cycle    == (days_diff % 60) + 1
    IN  [stem   |-> get_stem_branch(day_cycle).stem,
         branch |-> get_stem_branch(day_cycle).branch,
         cycle  |-> day_cycle]

\* variant: the buckets start at even hours
get_hour_branch_EvenHours(hour, minute) ==
    LET branch_index == ((hour * 60 + minute) \div 120) % 12
    IN  [branch |-> EARTHLY_BRANCHES[branch_index + 1], index |-> branch_index + 1]

\* decimal_hour = hour + minute / 60.0, compared and divided in minutes
get_hour_branch(hour, minute) ==
    LET minutes      == hour * 60 + minute
        b0           == ((minutes - 60) \div 120) + 1
        branch_index == IF minutes >= 23 * 60 \/ minutes < 60 THEN 0
                        ELSE IF b0 >= 12 THEN 11 ELSE b0
    IN  [branch |-> EARTHLY_BRANCHES[branch_index + 1], index |-> branch_index + 1]

\* wu_shu_dun.get(day_stem, 0): day stem -> 0-based stem index of the Zi hour
wu_shu_dun(day_stem) ==
    CASE day_stem \in {"jia", "ji"}   -> 0
      [] day_stem \in {"yi", "geng"}  -> 2
      [] day_stem \in {"bing", "xin"} -> 4
      [] day_stem \in {"ding", "ren"} -> 6
      [] day_stem \in {"wu", "gui"}   -> 8
      [] OTHER                        -> 0

\* variant: the Zi hour of every day starts one stem late
calculate_hour_stem_OneLate(day_stem, hour_branch_index) ==
    HEAVENLY_STEMS[((wu_shu_dun(day_stem) + 1 + hour_branch_index - 1) % 10) + 1]

calculate_hour_stem(day_stem, hour_branch_index) ==
    HEAVENLY_STEMS[((wu_shu_dun(day_stem) + hour_branch_index - 1) % 10) + 1]

\* variant: the stem of the day passed in is used at every hour
ganzhi_hour_NoRollover(target_local, minute, base_day_stem, tz) ==
    LET hour_branch == get_hour_branch(target_local % 24, minute)
        hour_stem   == calculate_hour_stem(base_day_stem, hour_branch.index)
    IN  [stem   |-> hour_stem,
         branch |-> hour_branch.branch,
         cycle  |-> calculate_cycle_from_stem_branch(StemIndexOf(hour_stem) + 1,
                                                     hour_branch.index)]

\* target_local: a local civil time (whole hours) at UTC offset tz; minute:
\* its minutes
ganzhi_hour(target_local, minute, base_day_stem, tz) ==
    LET hour        == target_local % 24
        hour_branch == get_hour_branch(hour, minute)
        day_stem    == IF hour >= 23
                       THEN ganzhi_day(target_local + 24, tz).stem
                       ELSE base_day_stem
        hour_stem   == calculate_hour_stem(day_stem, hour_branch.index)
    IN  [stem   |-> hour_stem,
         branch |-> hour_branch.branch,
         cycle  |-> calculate_cycle_from_stem_branch(StemIndexOf(hour_stem) + 1,
                                                     hour_branch.index)]

----------------------------------------------------------------------------
(* ConstructionStars (huangdao_systems_v2.py).  The twelve stars are       *)
(* written by their romanised names.                                       *)

CONSTRUCTION_STARS ==
    <<"jian", "chu", "man", "ping", "ding", "zhi",
      "po", "wei", "cheng", "shou", "kai", "bi">>

\* CONSTRUCTION_STARS.index(star), 0-based
StarIndexOf(star) == CHOOSE i \in 0..11 : CONSTRUCTION_STARS[i + 1] = star

\* BRANCH_INDEX[ch], 0-based
BRANCH_INDEX(ch) == CHOOSE i \in 0..11 : EARTHLY_BRANCHES[i + 1] = ch

\* the building branch of lunar month 1..12: yin for month 1, zi for 11
BUILDING_BRANCH_BY_MONTH(m) == EARTHLY_BRANCHES[((m + 1) % 12) + 1]

star_index_from_branches(building_branch, day_branch) ==
    (BRANCH_INDEX(day_branch) - BRANCH_INDEX(building_branch)) % 12

\* is_solar_term: _is_principal_solar_term_day(date_obj); month, day_branch:
\* of the day's lunisolar result; prev_star = "" stands for None
get_construction_star(is_solar_term, month, day_branch, prev_star, prev_was_solar_term) ==
    LET building_branch == BUILDING_BRANCH_BY_MONTH(month)
        base_star_index == star_index_from_branches(building_branch, day_branch)
        base_star       == CONSTRUCTION_STARS[base_star_index + 1]
    IN  IF is_solar_term /\ prev_star # "" THEN prev_star
        ELSE IF prev_was_solar_term /\ prev_star # ""
        THEN CONSTRUCTION_STARS[((StarIndexOf(prev_star) + 1) % 12) + 1]
        ELSE base_star

\* the lunisolar result of row day of month table c: the lunar month changes
\* at row c.new_month_day, the day branch advances by one a day
RowMonth(c, day) ==
    IF c.new_month_day # 0 /\ day >= c.new_month_day
    THEN (c.lunar_month % 12) + 1 ELSE c.lunar_month

RowDayBranch(c, day) == EARTHLY_BRANCHES[((c.first_branch + day - 1) % 12) + 1]

----------------------------------------------------------------------------
(* ResultAssembler                                                         *)

\* the LunisolarDateDTO; period_start (the CST start date of the target
\* period) is not a field of the DTO, it is kept to tell which period a
\* result came from
assemble_result(year, period, day, local_hour, year_ganzhi, month_ganzhi, day_ganzhi, hour_ganzhi) ==
    [year          |-> year,
     month         |-> period.month_number,
     day           |-> day,
     hour          |-> local_hour,
     is_leap_month |-> period.is_leap,
     year_stem     |-> year_ganzhi.stem,
     year_branch   |-> year_ganzhi.branch,
     month_stem    |-> month_ganzhi.stem,
     month_branch  |-> month_ganzhi.branch,
     day_stem      |-> day_ganzhi.stem,
     day_branch    |-> day_ganzhi.branch,
     hour_stem     |-> hour_ganzhi.stem,
     hour_branch   |-> hour_ganzhi.branch,
     year_cycle    |-> year_ganzhi.cycle,
     month_cycle   |-> month_ganzhi.cycle,
     day_cycle     |-> day_ganzhi.cycle,
     hour_cycle    |-> hour_ganzhi.cycle,
     period_start  |-> period.start_cst_date]

----------------------------------------------------------------------------
(* solar_to_lunisolar: one conversion after another, each step one action. *)

MaxTargetDay == 61     \* targets are drawn from days 0..MaxTargetDay after FirstTargetDate

FirstTargetDate == Ymd2Ord(2024, 12, 1)
TargetHours     == {0, 12, 18, 23}
TargetOffsets   == {8}

\* calls that name the timezone: 2024-12-01 and 2025-01-15 at the default
\* time 12:00, in the default zone and in the zone the command line defaults to
NamedRequests ==
    {[local |-> (FirstTargetDate + d) * 24 + 12, tz |-> 8, zone |-> "Asia/Shanghai"] :
        d \in {0, 45}}
    \cup {[local |-> (FirstTargetDate + d) * 24 + 12, tz |-> 7, zone |-> "Asia/Ho_Chi_Minh"] :
        d \in {0, 45}}

Requests ==
    {[local |-> (FirstTargetDate + d) * 24 + h, tz |-> z, zone |-> "hours"] :
        d \in 0..MaxTargetDay, h \in TargetHours, z \in TargetOffsets}
    \cup NamedRequests

Init ==
    /\ pc = "idle"
    /\ sky \in Skies
    /\ request = <<>>
    /\ window = <<>>
    /\ new_moons = <<>>
    /\ principal_terms = <<>>
    /\ periods = <<>>
    /\ anchor_solstice = -1
    /\ target_utc = -1
    /\ target_period = -1
    /\ lunar_day = -1
    /\ lunar_year = -1
    /\ result = <<>>
    /\ last = <<>>
    /\ error = ""
    /\ call = <<>>
    /\ swallowed = {}

\* the call: the services are built (lines 865-875), then
\* parse_local_datetime and local_to_utc (lines 877-879); the locals of the
\* previous call are gone, its result is remembered in last when both of its
\* ephemeris queries succeeded
Parse ==
    /\ pc \in {"idle", "done", "failed"}
    /\ \E r \in Requests :
          /\ request' = <<r>>
          /\ IF TimezoneHandler(r.zone, r.tz).error # ""
             THEN /\ target_utc' = -1
                  /\ pc' = "failed"
                  /\ error' = TimezoneHandler(r.zone, r.tz).error
             ELSE /\ target_utc' = local_to_utc(r.local, TimezoneHandler(r.zone, r.tz).utc_offset)
                  /\ pc' = "parsed"
                  /\ error' = ""
    /\ last' = IF pc = "done" /\ swallowed = {}
               THEN <<[period_start  |-> result[1].period_start,
                       month         |-> result[1].month,
                       is_leap_month |-> result[1].is_leap_month]>>
               ELSE last
    /\ window' = <<>>
    /\ new_moons' = <<>>
    /\ principal_terms' = <<>>
    /\ periods' = <<>>
    /\ anchor_solstice' = -1
    /\ target_period' = -1
    /\ lunar_day' = -1
    /\ lunar_year' = -1
    /\ result' = <<>>
    /\ swallowed' = {}
    /\ UNCHANGED <<call, sky>>

\* window_start, window_end = window_planner.compute_window(target_utc)
PlanWindow ==
    /\ pc = "parsed"
    /\ window' = compute_window(target_utc)
    /\ pc' = "planned"
    /\ UNCHANGED <<call, swallowed, sky, request, new_moons, principal_terms, periods,
                   anchor_solstice, target_utc, target_period, lunar_day,
                   lunar_year, result, last, error>>

\* lines 886-891: the two ephemeris queries and the check for no new moons
GetEphemeris ==
    /\ pc = "planned"
    /\ \E raised \in SUBSET {"new_moons", "principal_terms"} :
          /\ swallowed' = raised
          /\ new_moons' = compute_new_moons(window[1], window[2], "new_moons" \in raised)
          /\ principal_terms' =
                 compute_principal_terms(window[1], window[2], "principal_terms" \in raised)
    /\ IF new_moons' = <<>>
       THEN pc' = "failed" /\ error' = "NoNewMoons"
       ELSE pc' = "fetched" /\ error' = error
    /\ UNCHANGED <<call, sky, request, window, periods, anchor_solstice, target_utc,
                   target_period, lunar_day, lunar_year, result, last>>

\* periods = month_builder.build_month_periods(new_moons)
Build ==
    /\ pc = "fetched"
    /\ periods' = build_month_periods(new_moons)
    /\ pc' = "built"
    /\ UNCHANGED <<call, swallowed, sky, request, window, new_moons, principal_terms,
                   anchor_solstice, target_utc, target_period, lunar_day,
                   lunar_year, result, last, error>>

\* term_indexer.tag_principal_terms(periods, principal_terms)
Tag ==
    /\ pc = "built"
    /\ periods' = tag_principal_terms(periods, principal_terms)
    /\ pc' = "tagged"
    /\ UNCHANGED <<call, swallowed, sky, request, window, new_moons, principal_terms,
                   anchor_solstice, target_utc, target_period, lunar_day,
                   lunar_year, result, last, error>>

\* variant: the anchor is always the solstice of the target's year
choose_anchor_CurrentYear(target) == find_winter_solstice(YearOf(target))

\* lines 897-904 (790-796 in the batch): the latest winter solstice not
\* after the target
choose_anchor(target) ==
    LET current_year_solstice == find_winter_solstice(YearOf(target))
    IN  IF target >= current_year_solstice
        THEN current_year_solstice
        ELSE find_winter_solstice(YearOf(target) - 1)

\* lines 897-904: the anchor of the conversion
ChooseAnchor ==
    /\ pc = "tagged"
    /\ anchor_solstice' = choose_anchor(target_utc)
    /\ pc' = "anchored"
    /\ UNCHANGED <<call, swallowed, sky, request, window, new_moons, principal_terms, periods,
                   target_utc, target_period, lunar_day, lunar_year, result,
                   last, error>>

\* leap_assigner.assign_month_numbers(periods, anchor_solstice)
Assign ==
    /\ pc = "anchored"
    /\ periods' = assign_month_numbers(periods, anchor_solstice)
    /\ IF find_zi_month(periods, anchor_solstice) = -1
       THEN pc' = "failed" /\ error' = "ZiMonthNotFound"
       ELSE pc' = "assigned" /\ error' = error
    /\ UNCHANGED <<call, swallowed, sky, request, window, new_moons, principal_terms,
                   anchor_solstice, target_utc, target_period, lunar_day,
                   lunar_year, result, last>>

\* lines 910-911: find_period_for_datetime, then calculate_lunar_day
Find ==
    /\ pc = "assigned"
    /\ target_period' = find_period_for_datetime(periods, target_utc)
    /\ IF target_period' = -1
       THEN pc' = "failed" /\ error' = "NoPeriodFound" /\ lunar_day' = lunar_day
       ELSE /\ pc' = "found" /\ error' = error
            /\ lunar_day' = calculate_lunar_day(target_utc, periods[target_period' + 1])
    /\ UNCHANGED <<call, swallowed, sky, request, window, new_moons, principal_terms, periods,
                   anchor_solstice, target_utc, lunar_year, result, last>>

\* lunar_year = month_resolver.calculate_lunar_year(target_period, anchor_solstice)
LunarYear ==
    /\ pc = "found"
    /\ lunar_year' = calculate_lunar_year(periods[target_period + 1], anchor_solstice)
    /\ pc' = "resolved"
    /\ UNCHANGED <<call, swallowed, sky, request, window, new_moons, principal_terms, periods,
                   anchor_solstice, target_utc, target_period, lunar_day,
                   result, last, error, call>>

\* lines 916-935: the four sexagenary tuples, then assemble_result
Assemble ==
    /\ pc = "resolved"
    /\ LET local_datetime == request[1].local
           tz             == request[1].tz
           period         == periods[target_period + 1]
           year_ganzhi    == ganzhi_year(lunar_year)
           month_ganzhi   == ganzhi_month(lunar_year, period.month_number)
           day_ganzhi     == ganzhi_day(local_datetime, tz)
           hour_ganzhi    == ganzhi_hour(local_datetime, 0, day_ganzhi.stem, tz)
       IN  result' = <<assemble_result(lunar_year, period, lunar_day,
                                       local_datetime % 24, year_ganzhi,
                                       month_ganzhi, day_ganzhi, hour_ganzhi)>>
    /\ pc' = "done"
    /\ UNCHANGED <<call, swallowed, sky, request, window, new_moons, principal_terms, periods,
                   anchor_solstice, target_utc, target_period, lunar_day,
                   lunar_year, last, error>>

Next ==
    \/ Parse \/ PlanWindow \/ GetEphemeris \/ Build \/ Tag \/ ChooseAnchor
    \/ Assign \/ Find \/ LunarYear \/ Assemble

Spec == Init /\ [][Next]_vars

----------------------------------------------------------------------------
(* solar_to_lunisolar_batch: one call on a list of dates.                  *)

MaxBatch == 2          \* longest list of dates given to one batch call

\* the dates given to the batch: 2024-12-01, the solstice date 2024-12-21,
\* 2025-01-01 and the last target date, at 12:00 and at 18:00 (the solstice
\* of 2024 is at 17:00 CST)
BatchDays  == {0, 20, 31, MaxTargetDay}
BatchHours == {12, 18}

BatchRequests ==
    {r \in Requests : /\ ((r.local \div 24) - FirstTargetDate) \in BatchDays
                      /\ (r.local % 24) \in BatchHours
                      /\ r.zone = "hours"}

\* the lists of dates with the offset given in hours, and one date with the
\* timezone named
BatchInputs ==
    UNION {[1..n -> BatchRequests] : n \in 1..MaxBatch}
    \cup {<<r>> : r \in NamedRequests}

\* lines 798-825, the body of the loop over the dates: assign_month_numbers
\* on the shared list ps, then the result of date r, or the error raised
process_date(ps, r) ==
    LET target == local_to_utc(r.local, r.tz)
        anchor == choose_anchor(target)
        qs     == assign_month_numbers(ps, anchor)
        found  == find_period_for_datetime(qs, target)
        period == qs[found + 1]
        day    == calculate_lunar_day(target, period)
        year   == calculate_lunar_year(period, anchor)
        day_ganzhi == ganzhi_day(r.local, r.tz)
    IN  IF find_zi_month(ps, anchor) = -1
        THEN [periods |-> ps, error |-> "ZiMonthNotFound", result |-> <<>>,
              anchor |-> anchor, target |-> target, found |-> -1,
              day |-> -1, year |-> -1]
        ELSE IF found = -1
        THEN [periods |-> qs, error |-> "NoPeriodFound", result |-> <<>>,
              anchor |-> anchor, target |-> target, found |-> -1,
              day |-> -1, year |-> -1]
        ELSE [periods |-> qs, error |-> "",
              result |-> <<assemble_result(year, period, day, r.local % 24,
                              ganzhi_year(year),
                              ganzhi_month(year, period.month_number),
                              day_ganzhi,
                              ganzhi_hour(r.local, 0, day_ganzhi.stem, r.tz))>>,
              anchor |-> anchor, target |-> target, found |-> found,
              day |-> day, year |-> year]

\* solar_to_lunisolar as a function of its request: what the actions of Spec
\* compute, with the queries in raised raising inside the ephemeris service
solar_to_lunisolar(r, raised) ==
    LET target == local_to_utc(r.local, r.tz)
        w      == compute_window(target)
        moons  == compute_new_moons(w[1], w[2], "new_moons" \in raised)
        terms  == compute_principal_terms(w[1], w[2], "principal_terms" \in raised)
        ps     == tag_principal_terms(build_month_periods(moons), terms)
        done   == process_date(ps, r)
    IN  IF TimezoneHandler(r.zone, r.tz).error # ""
        THEN [error |-> TimezoneHandler(r.zone, r.tz).error, result |-> <<>>]
        ELSE IF moons = <<>>
        THEN [error |-> "NoNewMoons", result |-> <<>>]
        ELSE [error |-> done.error, result |-> done.result]

\* least and greatest element of a non-empty sequence of instants
MinOf(seq) == CHOOSE x \in {seq[i] : i \in 1..Len(seq)} : \A i \in 1..Len(seq) : x <= seq[i]
MaxOf(seq) == CHOOSE x \in {seq[i] : i \in 1..Len(seq)} : \A i \in 1..Len(seq) : x >= seq[i]

\* the UTC instants of the dates of the batch, in input order
ParsedDates == [i \in 1..Len(request) |-> local_to_utc(request[i].local, request[i].tz)]

BatchLocals == <<sky, last, call>>

\* lines 741-758: the services are built, then the call with a non-empty
\* list of dates, all parsed
BatchParse ==
    /\ pc = "idle"
    /\ \E dates \in BatchInputs :
          /\ request' = dates
          /\ IF TimezoneHandler(dates[1].zone, dates[1].tz).error # ""
             THEN /\ pc' = "failed"
                  /\ error' = TimezoneHandler(dates[1].zone, dates[1].tz).error
             ELSE /\ pc' = "batch_parsed"
                  /\ error' = error
    /\ UNCHANGED <<window, new_moons, principal_terms, periods, anchor_solstice,
                   target_utc, target_period, lunar_day, lunar_year, result,
                   swallowed, BatchLocals>>

\* lines 760-767: the window from the earliest to the latest date
BatchWindow ==
    /\ pc = "batch_parsed"
    /\ window' = <<compute_window(MinOf(ParsedDates))[1],
                   compute_window(MaxOf(ParsedDates))[2]>>
    /\ pc' = "batch_planned"
    /\ UNCHANGED <<request, new_moons, principal_terms, periods, anchor_solstice,
                   target_utc, target_period, lunar_day, lunar_year, result,
                   error, swallowed, BatchLocals>>

\* lines 769-774: the two ephemeris queries, once for the whole batch
BatchEphemeris ==
    /\ pc = "batch_planned"
    /\ \E raised \in SUBSET {"new_moons", "principal_terms"} :
          /\ swallowed' = raised
          /\ new_moons' = compute_new_moons(window[1], window[2], "new_moons" \in raised)
          /\ principal_terms' =
                 compute_principal_terms(window[1], window[2], "principal_terms" \in raised)
    /\ IF new_moons' = <<>>
       THEN pc' = "failed" /\ error' = "NoNewMoons"
       ELSE pc' = "batch_fetched" /\ error' = error
    /\ UNCHANGED <<request, window, periods, anchor_solstice, target_utc,
                   target_period, lunar_day, lunar_year, result, BatchLocals>>

\* lines 776-785: the periods built and tagged once
BatchBuild ==
    /\ pc = "batch_fetched"
    /\ periods' = tag_principal_terms(build_month_periods(new_moons), principal_terms)
    /\ pc' = "batch_loop"
    /\ UNCHANGED <<request, window, new_moons, principal_terms, anchor_solstice,
                   target_utc, target_period, lunar_day, lunar_year, result,
                   error, swallowed, BatchLocals>>

\* lines 789-825: the next date of the list, on the shared period list
BatchDate ==
    /\ pc = "batch_loop"
    /\ Len(result) < Len(request)
    /\ \E done \in {process_date(periods, request[Len(result) + 1])} :
           /\ periods' = done.periods
           /\ anchor_solstice' = done.anchor
           /\ target_utc' = done.target
           /\ target_period' = done.found
           /\ lunar_day' = done.day
           /\ lunar_year' = done.year
           /\ result' = result \o done.result
           /\ error' = done.error
           /\ pc' = IF done.error # "" THEN "failed" ELSE "batch_loop"
    /\ UNCHANGED <<request, window, new_moons, principal_terms, swallowed,
                   BatchLocals>>

\* line 827: return results
BatchReturn ==
    /\ pc = "batch_loop"
    /\ Len(result) = Len(request)
    /\ pc' = "batch_done"
    /\ UNCHANGED <<request, window, new_moons, principal_terms, periods,
                   anchor_solstice, target_utc, target_period, lunar_day,
                   lunar_year, result, error, swallowed, BatchLocals>>

BatchNext ==
    \/ BatchParse \/ BatchWindow \/ BatchEphemeris \/ BatchBuild
    \/ BatchDate \/ BatchReturn

BatchSpec == Init /\ [][BatchNext]_vars

----------------------------------------------------------------------------
(* The component operations called directly, in the order the pipeline     *)
(* calls them, on short lists of instants around a year end.               *)

MaxDay   == 2      \* instants are drawn from days 0..MaxDay after UnitBase
MaxMoons == 4      \* longest new-moon list
MaxTerms == 2      \* longest principal-term list

UnitBase == At(2024, 12, 30, 0)

\* 04:00 UTC is 12:00 CST of the same date, 17:00 and 20:00 UTC are 01:00 and
\* 04:00 CST of the next date
UnitMoonInstants == {UnitBase + d * 24 + h : d \in 0..MaxDay, h \in {4, 20}}
UnitTermInstants == {UnitBase + d * 24 + h : d \in 0..MaxDay, h \in {4, 17}}

\* the strictly increasing lists of at most n elements of S
SortedLists(S, n) ==
    UNION {{s \in [1..k -> S] : \A i \in 1..(k - 1) : s[i] < s[i + 1]} : k \in 0..n}

\* a list of term instants as PrincipalTerm records, the first being Z11
TermList(instants) ==
    [k \in 1..Len(instants) |-> PrincipalTerm(instants[k], ((k + 9) % 12) + 1)]

\* what only the conversion pipeline uses
PipelineOnly == <<sky, request, window, lunar_day, result, last, call, swallowed>>

UnitInit ==
    /\ pc = "start"
    /\ new_moons \in SortedLists(UnitMoonInstants, MaxMoons)
    /\ principal_terms = <<>>
    /\ periods = <<>>
    /\ sky = 0
    /\ request = <<>>
    /\ window = <<>>
    /\ anchor_solstice = -1
    /\ target_utc = -1
    /\ target_period = -1
    /\ lunar_day = -1
    /\ lunar_year = -1
    /\ result = <<>>
    /\ last = <<>>
    /\ error = ""
    /\ call = <<>>
    /\ swallowed = {}

\* periods = month_builder.build_month_periods(new_moons)
UnitBuild ==
    /\ pc = "start"
    /\ periods' = build_month_periods(new_moons)
    /\ pc' = "built"
    /\ UNCHANGED <<new_moons, principal_terms, anchor_solstice, target_utc,
                   target_period, lunar_year, error, PipelineOnly>>

\* term_indexer.tag_principal_terms(periods, principal_terms)
UnitTag ==
    /\ pc = "built"
    /\ \E ts \in SortedLists(UnitTermInstants, MaxTerms) :
          /\ principal_terms' = TermList(ts)
          /\ periods' = tag_principal_terms(periods, TermList(ts))
    /\ pc' = "tagged"
    /\ UNCHANGED <<new_moons, anchor_solstice, target_utc, target_period,
                   lunar_year, error, PipelineOnly>>

\* leap_assigner.assign_month_numbers(periods, anchor_solstice)
UnitAssign ==
    /\ pc = "tagged"
    /\ \E a \in UnitTermInstants :
          /\ anchor_solstice' = a
          /\ periods' = assign_month_numbers(periods, a)
          /\ IF find_zi_month(periods, a) = -1
             THEN pc' = "failed" /\ error' = "ZiMonthNotFound"
             ELSE pc' = "assigned" /\ error' = error
    /\ UNCHANGED <<new_moons, principal_terms, target_utc, target_period,
                   lunar_year, PipelineOnly>>

\* target_period = month_resolver.find_period_for_datetime(periods, target_utc)
UnitFind ==
    /\ pc = "assigned"
    /\ \E t \in UnitTermInstants :
          /\ target_utc' = t
          /\ target_period' = find_period_for_datetime(periods, t)
          /\ IF find_period_for_datetime(periods, t) = -1
             THEN pc' = "failed" /\ error' = "NoPeriodFound"
             ELSE pc' = "found" /\ error' = error
    /\ UNCHANGED <<new_moons, principal_terms, periods, anchor_solstice,
                   lunar_year, PipelineOnly>>

\* lunar_year = month_resolver.calculate_lunar_year(target_period, anchor_solstice)
UnitLunarYear ==
    /\ pc = "found"
    /\ lunar_year' = calculate_lunar_year(periods[target_period + 1], anchor_solstice)
    /\ pc' = "done"
    /\ UNCHANGED <<new_moons, principal_terms, periods, anchor_solstice,
                   target_utc, target_period, error, PipelineOnly>>

UnitNext == UnitBuild \/ UnitTag \/ UnitAssign \/ UnitFind \/ UnitLunarYear

UnitSpec == UnitInit /\ [][UnitNext]_vars

----------------------------------------------------------------------------
(* The pure functions called directly, each on every input of a small set. *)

\* period starts on both sides of a year end and of a leap day
StartDates ==
    {<<2024, 2, 29, 12>>, <<2024, 12, 31, 15>>, <<2024, 12, 31, 16>>,
     <<2025, 1, 1, 0>>, <<2025, 1, 29, 6>>, <<2025, 12, 20, 18>>}

LunarYearCalls ==
    {[fn |-> "calculate_lunar_year", start |-> s, month_number |-> m,
      is_leap |-> l, anchor |-> At(a, 12, 21, 9), ret |-> -1, returned |-> FALSE] :
        s \in StartDates, m \in 0..12, l \in BOOLEAN, a \in {2023, 2024}}

\* local civil times of the direct calls: dates at a year end, at a leap
\* day, and around the day counted as cycle 1
FnDates ==
    {Ymd2Ord(2024, 2, 28), Ymd2Ord(2024, 12, 31), Ymd2Ord(2025, 1, 1)}
    \cup {reference_date_utc + k : k \in {-61, -60, -1, 0, 1, 59, 60}}

FnHours   == {0, 1, 7, 8, 12, 22, 23}
FnMinutes == {0, 59}
FnOffsets == {-5, 0, 8}

GanzhiHourCalls ==
    {[fn |-> "ganzhi_hour", target_local |-> d * 24 + h, minute |-> m,
      base_day_stem |-> HEAVENLY_STEMS[b], tz |-> 8, ret |-> <<>>, returned |-> FALSE] :
        d \in {Ymd2Ord(2024, 2, 28), Ymd2Ord(2024, 12, 31)}, h \in FnHours,
        m \in FnMinutes, b \in 1..10}
    \cup
    {[fn |-> "ganzhi_hour", target_local |-> Ymd2Ord(2024, 12, 31) * 24 + h, minute |-> 30,
      base_day_stem |-> HEAVENLY_STEMS[b], tz |-> z, ret |-> <<>>, returned |-> FALSE] :
        h \in {22, 23}, b \in 1..10, z \in FnOffsets}

HourBranchCalls ==
    {[fn |-> "get_hour_branch", hour |-> h, minute |-> m, ret |-> <<>>, returned |-> FALSE] :
        h \in 0..23, m \in 0..59}

GanzhiDayCalls ==
    {[fn |-> "ganzhi_day", target_local |-> d * 24 + h, tz |-> z,
      ret |-> <<>>, returned |-> FALSE] :
        d \in FnDates, h \in FnHours, z \in FnOffsets}

FnYears == (-125..125) \cup {1984, 2024, 2025}

GanzhiYearCalls ==
    {[fn |-> "ganzhi_year", lunar_year |-> y, ret |-> <<>>, returned |-> FALSE] :
        y \in FnYears}

GanzhiMonthCalls ==
    {[fn |-> "ganzhi_month", lunar_year |-> y, lunar_month |-> m,
      ret |-> <<>>, returned |-> FALSE] :
        y \in (-8..13) \cup (2020..2029), m \in 1..12}

\* periods that start at 23:00 CST, at 00:00 CST and at noon UTC and last a
\* lunation, or a day less or more; targets from two days before the start
\* to 33 days after it, at hours on both sides of CST midnight
LunarDayCalls ==
    {[fn |-> "calculate_lunar_day", start |-> At(2024, 12, 30, h),
      end |-> At(2024, 12, 30, h) + LunationHours + e,
      target |-> At(2024, 12, 30, h) + 24 * d + t,
      ret |-> -1, returned |-> FALSE] :
        h \in {12, 15, 16}, e \in {-24, 0, 12, 24}, d \in -2..33, t \in {0, 3, 11}}

\* a local time in the last hour of a date and one in the first hour of the
\* next date, at one offset
ZiHourCalls ==
    {[fn |-> "hour_ganzhi", date |-> d, late_minute |-> m, early_minute |-> n,
      tz |-> z, ret |-> <<>>, returned |-> FALSE] :
        d \in FnDates, m \in FnMinutes, n \in FnMinutes, z \in FnOffsets}

MaxTableDays == 6      \* rows of a month table

\* month tables: the day branch of the first row, the lunar month of the
\* first row, the row that is a solar-term day (0: none; the twelve terms
\* that repeat the star fall on the 3rd to the 9th of a Gregorian month) and
\* the row at which the next lunar month begins (0: none)
MonthCalendarCalls ==
    {[fn |-> "print_month_calendar", first_branch |-> b, lunar_month |-> m,
      term_day |-> t, new_month_day |-> n, days |-> MaxTableDays,
      prev_star |-> "", prev_was_solar_term |-> FALSE,
      ret |-> <<>>, returned |-> FALSE] :
        b \in 0..11, m \in {1, 11, 12}, t \in {0} \cup (3..MaxTableDays),
        n \in {0} \cup (2..MaxTableDays)}

FnCalls ==
    LunarYearCalls \cup GanzhiHourCalls \cup HourBranchCalls \cup GanzhiDayCalls
    \cup GanzhiYearCalls \cup GanzhiMonthCalls \cup LunarDayCalls \cup ZiHourCalls
    \cup MonthCalendarCalls

FnInit ==
    /\ pc = "idle"
    /\ sky = 0
    /\ request = <<>>
    /\ window = <<>>
    /\ new_moons = <<>>
    /\ principal_terms = <<>>
    /\ periods = <<>>
    /\ anchor_solstice = -1
    /\ target_utc = -1
    /\ target_period = -1
    /\ lunar_day = -1
    /\ lunar_year = -1
    /\ result = <<>>
    /\ last = <<>>
    /\ error = ""
    /\ swallowed = {}
    /\ \E c \in FnCalls : call = <<c>>

NotCall == <<pc, sky, request, window, new_moons, principal_terms, periods,
             anchor_solstice, target_utc, target_period, lunar_day, lunar_year,
             result, last, error, swallowed>>

\* month_resolver.calculate_lunar_year(period, anchor) on a period of its own
CallLunarYear ==
    /\ call # <<>> /\ call[1].fn = "calculate_lunar_year" /\ ~call[1].returned
    /\ LET c == call[1]
           s == At(c.start[1], c.start[2], c.start[3], c.start[4])
           period == [MonthPeriod(0, s, s + LunationHours)
                        EXCEPT !.month_number = c.month_number, !.is_leap = c.is_leap]
       IN  call' = <<[c EXCEPT !.ret = calculate_lunar_year(period, c.anchor),
                               !.returned = TRUE]>>
    /\ UNCHANGED NotCall

\* sexagenary_engine.ganzhi_hour(target_local, base_day_stem)
CallGanzhiHour ==
    /\ call # <<>> /\ call[1].fn = "ganzhi_hour" /\ ~call[1].returned
    /\ LET c == call[1]
       IN  call' = <<[c EXCEPT !.ret = <<ganzhi_hour(c.target_local, c.minute,
                                                     c.base_day_stem, c.tz)>>,
                               !.returned = TRUE]>>
    /\ UNCHANGED NotCall

\* sexagenary_engine._get_hour_branch(hour, minute)
CallHourBranch ==
    /\ call # <<>> /\ call[1].fn = "get_hour_branch" /\ ~call[1].returned
    /\ LET c == call[1]
       IN  call' = <<[c EXCEPT !.ret = <<get_hour_branch(c.hour, c.minute)>>,
                               !.returned = TRUE]>>
    /\ UNCHANGED NotCall

\* sexagenary_engine.ganzhi_day(target_local)
CallGanzhiDay ==
    /\ call # <<>> /\ call[1].fn = "ganzhi_day" /\ ~call[1].returned
    /\ LET c == call[1]
       IN  call' = <<[c EXCEPT !.ret = <<ganzhi_day(c.target_local, c.tz)>>,
                               !.returned = TRUE]>>
    /\ UNCHANGED NotCall

\* sexagenary_engine.ganzhi_year(lunar_year)
CallGanzhiYear ==
    /\ call # <<>> /\ call[1].fn = "ganzhi_year" /\ ~call[1].returned
    /\ LET c == call[1]
       IN  call' = <<[c EXCEPT !.ret = <<ganzhi_year(c.lunar_year)>>,
                               !.returned = TRUE]>>
    /\ UNCHANGED NotCall

\* sexagenary_engine.ganzhi_month(lunar_year, lunar_month)
CallGanzhiMonth ==
    /\ call # <<>> /\ call[1].fn = "ganzhi_month" /\ ~call[1].returned
    /\ LET c == call[1]
       IN  call' = <<[c EXCEPT !.ret = <<ganzhi_month(c.lunar_year, c.lunar_month)>>,
                               !.returned = TRUE]>>
    /\ UNCHANGED NotCall

\* month_resolver.calculate_lunar_day(target_utc, period) on a period of its own
CallLunarDay ==
    /\ call # <<>> /\ call[1].fn = "calculate_lunar_day" /\ ~call[1].returned
    /\ LET c == call[1]
       IN  call' = <<[c EXCEPT !.ret = calculate_lunar_day(c.target,
                                           MonthPeriod(0, c.start, c.end)),
                               !.returned = TRUE]>>
    /\ UNCHANGED NotCall

\* lines 922-923: the hour tuple of a local datetime, the day stem passed to
\* ganzhi_hour being that of ganzhi_day of the same datetime
hour_ganzhi(local_datetime, minute, tz) ==
    ganzhi_hour(local_datetime, minute, ganzhi_day(local_datetime, tz).stem, tz)

\* the hour tuples of 23:mm on a date and of 00:nn on the next date
CallZiHour ==
    /\ call # <<>> /\ call[1].fn = "hour_ganzhi" /\ ~call[1].returned
    /\ LET c == call[1]
       IN  call' = <<[c EXCEPT !.ret = <<hour_ganzhi(c.date * 24 + 23, c.late_minute, c.tz),
                                         hour_ganzhi((c.date + 1) * 24, c.early_minute, c.tz)>>,
                               !.returned = TRUE]>>
    /\ UNCHANGED NotCall

\* one turn of the loop of print_month_calendar: the row of the next day,
\* from the lunisolar result of that day (its lunar month and day branch),
\* then the tracking variables for the next turn
PrintCalendarRow ==
    /\ call # <<>> /\ call[1].fn = "print_month_calendar" /\ ~call[1].returned
    /\ LET c    == call[1]
           day  == Len(c.ret) + 1
           star == get_construction_star(day = c.term_day, RowMonth(c, day),
                                         RowDayBranch(c, day), c.prev_star,
                                         c.prev_was_solar_term)
       IN  call' = <<[c EXCEPT !.ret = Append(c.ret, star),
                               !.prev_star = star,
                               !.prev_was_solar_term = (day = c.term_day),
                               !.returned = (day = c.days)]>>
    /\ UNCHANGED NotCall

FnNext ==
    \/ CallLunarYear \/ CallGanzhiHour \/ CallHourBranch \/ CallGanzhiDay
    \/ CallGanzhiYear \/ CallGanzhiMonth \/ CallLunarDay \/ CallZiHour
    \/ PrintCalendarRow

FnSpec == FnInit /\ [][FnNext]_vars

----------------------------------------------------------------------------
(* Properties of the component operations.  They hold of the direct calls  *)
(* (UnitSpec) and of the calls the conversion makes (Spec).                *)

Assigned == pc \in {"assigned", "found", "resolved", "done"}
Tagged   == pc \in {"tagged", "anchored"} \/ Assigned
Built    == pc = "built" \/ Tagged

\* sequence positions of the periods holding the anchor instant
ZiPositions ==
    {i \in 1..Len(periods) :
        periods[i].start_utc <= anchor_solstice /\ anchor_solstice < periods[i].end_utc}

ZiPos == CHOOSE i \in ZiPositions : TRUE

\* C1: once assign_month_numbers has returned, every period after the Zi
\* month is numbered from its predecessor: with a principal term it gets the
\* predecessor's number advanced by one (12 wraps to 1) and is not leap,
\* without one it repeats the predecessor's number and is leap; so its number
\* is in 1..12 and it is leap exactly when it has no principal term.
C1_ForwardPass ==
    Assigned =>
        \A i \in (ZiPos + 1)..Len(periods) :
            /\ periods[i].month_number \in 1..12
            /\ periods[i].is_leap = ~periods[i].has_principal_term
            /\ periods[i].has_principal_term =>
                   periods[i].month_number = (periods[i - 1].month_number % 12) + 1
            /\ ~periods[i].has_principal_term =>
                   periods[i].month_number = periods[i - 1].month_number

\* a list in which, after the Zi month, month 12 is followed by month 1 and
\* some month without a principal term repeats the number before it
C1_Witness ==
    /\ pc = "assigned"
    /\ \E i \in (ZiPos + 2)..Len(periods) :
          periods[i - 1].month_number = 12 /\ periods[i].month_number = 1
    /\ \E j \in (ZiPos + 1)..Len(periods) :
          /\ periods[j].is_leap
          /\ periods[j].month_number = periods[j - 1].month_number

\* C2: assign_month_numbers returns only when exactly one period holds the
\* anchor instant (start_utc <= anchor < end_utc), and that period is then
\* numbered 11 and not leap whatever its has_principal_term; when no period
\* holds the anchor it raises and no period has been numbered.
C2_ZiMonth ==
    /\ Assigned =>
          /\ Cardinality(ZiPositions) = 1
          /\ periods[ZiPos].month_number = 11
          /\ ~periods[ZiPos].is_leap
    /\ (pc = "failed" /\ error = "ZiMonthNotFound") =>
          /\ ZiPositions = {}
          /\ \A i \in 1..Len(periods) :
                periods[i].month_number = 0 /\ ~periods[i].is_leap

\* the Zi month was found in a period that carries no principal term
C2_Witness ==
    /\ pc = "assigned"
    /\ ~periods[ZiPos].has_principal_term
    /\ periods[ZiPos].month_number = 11

\* C4: a leap period carries the number of the nearest non-leap period
\* before it.
C4_LeapTakesPreceding ==
    Assigned =>
        \A i \in 1..Len(periods) :
            periods[i].is_leap =>
                \E j \in 1..(i - 1) :
                    /\ ~periods[j].is_leap
                    /\ \A k \in (j + 1)..(i - 1) : periods[k].is_leap
                    /\ periods[i].month_number = periods[j].month_number

\* two leap periods in a row after a regular month 12
C4_Witness ==
    /\ pc = "assigned"
    /\ \E i \in 2..(Len(periods) - 1) :
          /\ periods[i - 1].month_number = 11 /\ ~periods[i - 1].is_leap
          /\ periods[i].is_leap /\ periods[i + 1].is_leap

\* C5: after tag_principal_terms a period has a principal term exactly when
\* the CST date of some term lies in [start_cst_date, end_cst_date); a term
\* dated on a period's end date does not tag that period, also when its
\* instant precedes the period's end instant; a term in no period tags none.
C5_TagHalfOpen ==
    Tagged =>
        \A i \in 1..Len(periods) :
            periods[i].has_principal_term <=>
                \E k \in 1..Len(principal_terms) :
                    /\ periods[i].start_cst_date <= principal_terms[k].cst_date
                    /\ principal_terms[k].cst_date < periods[i].end_cst_date

\* a term on the end date of an untagged period, before its end instant,
\* that tagged the next period
C5_Witness ==
    /\ pc = "tagged"
    /\ \E i \in 1..(Len(periods) - 1) : \E k \in 1..Len(principal_terms) :
          /\ principal_terms[k].cst_date = periods[i].end_cst_date
          /\ principal_terms[k].instant_utc < periods[i].end_utc
          /\ ~periods[i].has_principal_term
          /\ periods[i + 1].has_principal_term

\* C6: N >= 2 new moons give N - 1 periods, period i (0-based) spanning
\* new_moons[i] to new_moons[i + 1], so that adjacent periods share their
\* boundary instant and their boundary CST date.
C6_Contiguous ==
    (Built /\ Len(new_moons) >= 2) =>
        /\ Len(periods) = Len(new_moons) - 1
        /\ \A i \in 1..Len(periods) :
              /\ periods[i].index = i - 1
              /\ periods[i].start_utc = new_moons[i]
              /\ periods[i].end_utc = new_moons[i + 1]
        /\ \A i \in 1..(Len(periods) - 1) :
              /\ periods[i].end_utc = periods[i + 1].start_utc
              /\ periods[i].end_cst_date = periods[i + 1].start_cst_date

\* three periods were built from four new moons
C6_Witness ==
    pc = "built" /\ Len(new_moons) = 4 /\ Len(periods) = 3

\* C7: the period find_period_for_datetime returns holds the target's CST
\* date in [start_cst_date, end_cst_date) and no other period of the list
\* does; it raises only when no period does.
C7_FindPeriod ==
    LET d       == (target_utc + 8) \div 24
        Holds(i) == periods[i].start_cst_date <= d /\ d < periods[i].end_cst_date
    IN  /\ pc \in {"found", "done"} =>
              /\ target_period + 1 \in 1..Len(periods)
              /\ Holds(target_period + 1)
              /\ \A j \in 1..Len(periods) : Holds(j) => j = target_period + 1
        /\ (pc = "failed" /\ error = "NoPeriodFound") =>
              \A j \in 1..Len(periods) : ~Holds(j)

\* a target on the CST date a period starts on, found in that period and not
\* in the one before it
C7_Witness ==
    /\ pc = "found"
    /\ target_period >= 1
    /\ periods[target_period + 1].start_cst_date = (target_utc + 8) \div 24

----------------------------------------------------------------------------
(* Properties of the conversion (Spec).                                    *)

\* C3: once the terms are tagged and the months numbered, the Zi month has
\* a principal term and is numbered 11 (both ephemeris queries having
\* succeeded).
C3_ZiHasPrincipalTerm ==
    (Assigned /\ swallowed = {}) =>
        /\ periods[ZiPos].has_principal_term
        /\ periods[ZiPos].month_number = 11

\* C8: two conversions whose targets fall in the same month period return
\* the same month number and the same leap flag (the ephemeris queries of
\* both having succeeded).
C8_SamePeriodSameMonth ==
    (/\ pc = "done" /\ last # <<>>
     /\ swallowed = {}
     /\ last[1].period_start = result[1].period_start) =>
        /\ result[1].month = last[1].month
        /\ result[1].is_leap_month = last[1].is_leap_month

\* C9: 2025-01-01 12:00 at UTC+8 is converted to lunar year 2024.
C9_NewYear2025 ==
    (/\ pc = "done"
     /\ sky = 0 /\ swallowed = {}
     /\ request[1].local = At(2025, 1, 1, 12) /\ request[1].tz = 8) =>
        result[1].year = 2024

----------------------------------------------------------------------------
(* Properties of the pure functions (FnSpec).                              *)

----------------------------------------------------------------------------
(* Properties of the batch conversion (BatchSpec).                         *)

----------------------------------------------------------------------------
(* Properties of the sexagenary functions (FnSpec).                        *)

Returned(fn) == call # <<>> /\ call[1].fn = fn /\ call[1].returned

\* Wu Shu Dun: the stem of the Zi hour of a day with the given stem
ZiHourStemOf(day_stem) ==
    CASE day_stem \in {"jia", "ji"}   -> "jia"
      [] day_stem \in {"yi", "geng"}  -> "bing"
      [] day_stem \in {"bing", "xin"} -> "wu"
      [] day_stem \in {"ding", "ren"} -> "geng"
      [] day_stem \in {"wu", "gui"}   -> "ren"

\* the 0-based branch of a local hour: 23 and 0 give 0, then two hours each
BranchOfHour(hour) == IF hour = 23 \/ hour = 0 THEN 0 ELSE (hour + 1) \div 2

\* C12: at local 23:00-23:59 ganzhi_hour returns the branch zi and the stem
\* of the Zi hour of the day after (the day stem of local + 1 day), whatever
\* day stem was passed in; at every other time the stem is counted from the
\* Zi-hour stem of the day stem passed in.
C12_HourRollover ==
    Returned("ganzhi_hour") =>
        LET c             == call[1]
            hour          == c.target_local % 24
            next_day_stem == ganzhi_day(c.target_local + 24, c.tz).stem
            zi_stem       == IF hour = 23 THEN ZiHourStemOf(next_day_stem)
                             ELSE ZiHourStemOf(c.base_day_stem)
        IN  /\ hour = 23 => c.ret[1].branch = "zi" /\ c.ret[1].stem = zi_stem
            /\ c.ret[1].stem =
                  HEAVENLY_STEMS[((StemIndexOf(zi_stem) + BranchOfHour(hour)) % 10) + 1]

\* a call at 23:xx whose stem is not the one the passed day stem would give
C12_Witness ==
    /\ Returned("ganzhi_hour")
    /\ call[1].target_local % 24 = 23
    /\ call[1].ret[1].stem # ZiHourStemOf(call[1].base_day_stem)
    /\ call[1].ret[1].branch = "zi"

\* C13: _get_hour_branch returns for every hour 0..23 and minute 0..59 the
\* branch of the two-hour bucket of the clock time: 23:00-00:59 the first
\* (zi), 01:00-02:59 the second, ..., 21:00-22:59 the twelfth (hai).
C13_HourBranch ==
    Returned("get_hour_branch") =>
        LET c == call[1]
        IN  /\ c.ret[1].index = BranchOfHour(c.hour) + 1
            /\ c.ret[1].branch = EARTHLY_BRANCHES[BranchOfHour(c.hour) + 1]

\* the last minute of the twelfth bucket
C13_Witness ==
    /\ Returned("get_hour_branch")
    /\ call[1].hour = 22 /\ call[1].minute = 59
    /\ call[1].ret[1].branch = "hai"

\* C14: ganzhi_day returns cycle ((UTC date of the target - January 31 of
\* year 4) mod 60) + 1, in 1..60 also before the anchor; the anchor date has
\* cycle 1 and the result repeats after 60 days.
C14_DayCycle ==
    Returned("ganzhi_day") =>
        LET c        == call[1]
            utc_date == (c.target_local - c.tz) \div 24
            anchor   == Ymd2Ord(4, 1, 31)
        IN  /\ c.ret[1].cycle = ((utc_date - anchor) % 60) + 1
            /\ c.ret[1].cycle \in 1..60
            /\ utc_date = anchor => c.ret[1].cycle = 1
            /\ ganzhi_day(c.target_local + 60 * 24, c.tz) = c.ret[1]

\* a local time before the anchor whose UTC date is not its local date
C14_Witness ==
    /\ Returned("ganzhi_day")
    /\ call[1].target_local \div 24 < Ymd2Ord(4, 1, 31)
    /\ (call[1].target_local - call[1].tz) \div 24 # call[1].target_local \div 24
    /\ call[1].ret[1].cycle \in 1..60

\* C15: ganzhi_year returns cycle ((lunar_year - 4) mod 60) + 1 in 1..60 for
\* every integer year, also below 4 and negative; year 4 is cycle 1 (jia zi)
\* and the result repeats after 60 years.
C15_YearCycle ==
    Returned("ganzhi_year") =>
        LET c == call[1]
            y == c.lunar_year
        IN  /\ c.ret[1].cycle = ((y - 4) % 60) + 1
            /\ c.ret[1].cycle \in 1..60
            /\ y = 4 => c.ret[1] = [stem |-> "jia", branch |-> "zi", cycle |-> 1]
            /\ ganzhi_year(y + 60) = c.ret[1]

\* a negative year
C15_Witness ==
    /\ Returned("ganzhi_year")
    /\ call[1].lunar_year = -57
    /\ call[1].ret[1].cycle = 60

\* the stem of the first month of a year with the given stem
FirstMonthStemOf(year_stem) ==
    CASE year_stem \in {"jia", "ji"}   -> "bing"
      [] year_stem \in {"yi", "geng"}  -> "wu"
      [] year_stem \in {"bing", "xin"} -> "geng"
      [] year_stem \in {"ding", "ren"} -> "ren"
      [] year_stem \in {"wu", "gui"}   -> "jia"

\* C17: for month numbers 1..12 ganzhi_month returns the branch at 1-based
\* position (m + 2) mod 12, 0 read as 12 (month 1 yin, 11 zi, 12 chou), and
\* the first-month stem of the year stem advanced by m - 1.
C17_MonthStemBranch ==
    Returned("ganzhi_month") =>
        LET c     == call[1]
            m     == c.lunar_month
            pos   == IF (m + 2) % 12 = 0 THEN 12 ELSE (m + 2) % 12
            first == FirstMonthStemOf(ganzhi_year(c.lunar_year).stem)
        IN  /\ c.ret[1].branch = EARTHLY_BRANCHES[pos]
            /\ m = 1 => c.ret[1].branch = "yin"
            /\ m = 11 => c.ret[1].branch = "zi"
            /\ m = 12 => c.ret[1].branch = "chou"
            /\ c.ret[1].stem = HEAVENLY_STEMS[((StemIndexOf(first) + m - 1) % 10) + 1]

\* month 10 of 2024 (a jia year): the branch position wraps to 12 (hai) and
\* the stem has gone once round from bing to yi
C17_Witness ==
    /\ Returned("ganzhi_month")
    /\ call[1].lunar_year = 2024 /\ call[1].lunar_month = 10
    /\ call[1].ret[1].branch = "hai"
    /\ call[1].ret[1].stem = "yi"

----------------------------------------------------------------------------
(* Properties of the results and of the window (Spec), and of the errors.  *)

\* position c of the 60-cycle with its own stem and branch
Genuine(stem, branch, c) ==
    /\ c \in 1..60
    /\ stem = HEAVENLY_STEMS[((c - 1) % 10) + 1]
    /\ branch = EARTHLY_BRANCHES[((c - 1) % 12) + 1]

\* C16: in every result the year, month, day and hour tuples are positions of
\* the 60-cycle: the cycle is in 1..60 and the stem and the branch are those
\* of that position (so no cycle comes from the fallback return).
C16_GenuineCycles ==
    pc = "done" =>
        LET r == result[1]
        IN  /\ Genuine(r.year_stem, r.year_branch, r.year_cycle)
            /\ Genuine(r.month_stem, r.month_branch, r.month_cycle)
            /\ Genuine(r.day_stem, r.day_branch, r.day_cycle)
            /\ Genuine(r.hour_stem, r.hour_branch, r.hour_cycle)

\* a result for 23:00 in a leap-free month 12 whose month and hour cycles
\* are not 1
C16_Witness ==
    /\ pc = "done"
    /\ result[1].hour = 23
    /\ result[1].month = 12
    /\ result[1].month_cycle # 1
    /\ result[1].hour_cycle # 1

\* C18: the window is the bracket of two consecutive winter solstices around
\* the target ([current, next] when the target is not before the solstice of
\* its UTC year, else [previous, current]) widened by 30 days on each side;
\* the target and the anchor chosen later lie inside it.
C18_Window ==
    (pc \in {"planned", "fetched", "built", "tagged", "anchored"} \/ Assigned) =>
        LET y       == YearOf(target_utc)
            current == find_winter_solstice(y)
            bracket == IF target_utc >= current
                       THEN <<current, find_winter_solstice(y + 1)>>
                       ELSE <<find_winter_solstice(y - 1), current>>
        IN  /\ window = <<bracket[1] - 30 * 24, bracket[2] + 30 * 24>>
            /\ window[1] <= target_utc /\ target_utc <= window[2]
            /\ anchor_solstice # -1 =>
                  /\ anchor_solstice = bracket[1]
                  /\ window[1] <= anchor_solstice /\ anchor_solstice <= window[2]

\* a target of December 2024 before the solstice: the bracket starts at the
\* solstice of 2023, which is the anchor
C18_Witness ==
    /\ pc = "anchored"
    /\ YearOf(target_utc) = 2024
    /\ target_utc < find_winter_solstice(2024)
    /\ anchor_solstice = find_winter_solstice(2023)
    /\ window[1] = anchor_solstice - 30 * 24

\* C19: a conversion in which an ephemeris query raised does not return a
\* result.
C19_NoSwallowedError ==
    pc = "done" => swallowed = {}

\* C20: build_month_periods on fewer than two new moons fails with an
\* insufficient-ephemeris-data error: it never returns a period list.
C20_BuildNeedsTwoMoons ==
    Len(new_moons) < 2 => ~Built

----------------------------------------------------------------------------
(* The caller's timezone                                                   *)

\* the offsets of a second caller naming the same UTC instant
CallerOffsets == {-5, 0}

\* the request of a caller at offset z for the instant of request r
SameInstant(r, z) == [local |-> (r.local - r.tz) + z, tz |-> z, zone |-> "hours"]

\* C21: the month boundaries do not depend on the caller's timezone: a
\* conversion that returned a date agrees in lunar year, month, day and
\* leap flag with the conversion of the same UTC instant given as the local
\* time of any other offset.
C21_CallerTimezone ==
    pc = "done" =>
        \A z \in CallerOffsets :
            LET other == solar_to_lunisolar(SameInstant(request[1], z), swallowed)
            IN  /\ other.error = ""
                /\ other.result[1].year = result[1].year
                /\ other.result[1].month = result[1].month
                /\ other.result[1].day = result[1].day
                /\ other.result[1].is_leap_month = result[1].is_leap_month

\* a date returned for 2025-01-29 00:00 at UTC+8, the first CST day of a
\* month in the sky of 2024, which is 2025-01-28 at the offsets 0 and -5
C21_Witness ==
    /\ pc = "done"
    /\ sky = 0
    /\ swallowed = {}
    /\ request[1].local = At(2025, 1, 29, 0)
    /\ result[1].day = 1
    /\ \A z \in CallerOffsets :
           SameInstant(request[1], z).local \div 24 = Ymd2Ord(2025, 1, 28)

----------------------------------------------------------------------------
(* The day of the month                                                    *)

\* the CST calendar date of a UTC instant: the date eight hours later
CstDate(t) == (t + 8) \div 24

\* C22: calculate_lunar_day returns the CST days from the period's first CST
\* date to the target's CST date, plus one, clamped into 1..30: the result
\* is always in 1..30, it is the unclamped count whenever the target's CST
\* date lies in a period that spans at most 30 CST days, and the first CST
\* day of a period is day 1.
C22_LunarDay ==
    (call # <<>> /\ call[1].fn = "calculate_lunar_day" /\ call[1].returned) =>
        LET c     == call[1]
            first == CstDate(c.start)
            after == CstDate(c.end)
            day   == CstDate(c.target)
            count == (day - first) + 1
        IN  /\ c.ret \in 1..30
            /\ c.ret = IF count < 1 THEN 1 ELSE IF count > 30 THEN 30 ELSE count
            /\ (first <= day /\ day < after /\ after - first <= 30) => c.ret = count
            /\ day = first => c.ret = 1

\* the last CST day of a period of 30 CST days, one that starts at 00:00 CST,
\* was given day 30
C22_Witness ==
    /\ call # <<>> /\ call[1].fn = "calculate_lunar_day" /\ call[1].returned
    /\ call[1].start % 24 = 16
    /\ CstDate(call[1].end) - CstDate(call[1].start) = 30
    /\ CstDate(call[1].target) = CstDate(call[1].end) - 1
    /\ call[1].ret = 30

----------------------------------------------------------------------------
(* Leap months between two winter solstices                                *)

\* the winter solstice that follows the anchor
NextSolstice == find_winter_solstice(YearOf(anchor_solstice) + 1)

\* sequence position of the period holding the next winter solstice, or the
\* position after the last period when the list ends before it
NextZiPos ==
    LET holds == {i \in 1..Len(periods) :
                     periods[i].start_utc <= NextSolstice /\ NextSolstice < periods[i].end_utc}
    IN  IF holds = {} THEN Len(periods) + 1 ELSE CHOOSE i \in holds : TRUE

\* the positions from the Zi month up to, not including, the period of the
\* next winter solstice
SolsticeSpan == ZiPos..(NextZiPos - 1)

\* C23: once assign_month_numbers has returned (both ephemeris queries having
\* succeeded), at most one of the periods from the Zi month up to, but not
\* including, the period of the next winter solstice is flagged leap, and
\* the Zi month is not flagged leap.
C23_OneLeapPerYear ==
    (Assigned /\ swallowed = {}) =>
        /\ ~periods[ZiPos].is_leap
        /\ Cardinality({i \in SolsticeSpan : periods[i].is_leap}) <= 1

----------------------------------------------------------------------------
(* The timezone argument                                                   *)

\* C24: a call that names its timezone by an IANA name, the default
\* 'Asia/Shanghai' included, builds its timezone handler from the name
\* without error: the call never fails with the TypeError of the handler's
\* constructor.
C24_NamedTimezone ==
    (request # <<>> /\ request[1].zone \in IanaZones) => error # "TypeError"

----------------------------------------------------------------------------
(* The forward-only pass                                                   *)

Found == pc \in {"found", "resolved", "done"}

\* C25: with the anchor chosen as solar_to_lunisolar chooses it, the period
\* find_period_for_datetime returns is the Zi month or a later one, so it
\* has been numbered by the forward pass and the month of the result is in
\* 1..12, never the unassigned 0.
C25_ForwardOnly ==
    /\ Found =>
          /\ target_period + 1 >= ZiPos
          /\ periods[target_period + 1].month_number \in 1..12
    /\ pc = "done" => result[1].month \in 1..12

\* a date returned for a target in the Zi month itself, which follows a
\* period that was left unnumbered
C25_Witness ==
    /\ pc = "done"
    /\ target_period + 1 = ZiPos
    /\ ZiPos > 1
    /\ periods[1].month_number = 0
    /\ result[1].month = 11

----------------------------------------------------------------------------
(* What assign_month_numbers leaves alone                                  *)

\* period q is period p but for its month_number and is_leap
SameButNumbering(p, q) ==
    /\ q.index = p.index
    /\ q.start_utc = p.start_utc /\ q.end_utc = p.end_utc
    /\ q.start_cst_date = p.start_cst_date /\ q.end_cst_date = p.end_cst_date
    /\ q.has_principal_term = p.has_principal_term

\* C26: assign_month_numbers changes only month_number and is_leap, and only
\* of the Zi month and the periods after it: the index, the UTC and CST
\* boundaries and has_principal_term of every period are as before, and the
\* periods before the Zi month keep the month_number and is_leap they had
\* (0 and False in a fresh list, the values of an earlier anchor in a batch).
C26_AssignFrame ==
    [][pc = "batch_loop" /\ Len(result') > Len(result) =>
          /\ Len(periods') = Len(periods)
          /\ \A i \in 1..Len(periods) :
                /\ SameButNumbering(periods[i], periods'[i])
                /\ periods[i].end_utc <= anchor_solstice' => periods'[i] = periods[i]]_vars

\* the second date of a batch was converted from the solstice of 2024 on a
\* list whose periods before the Zi month carry the numbers given from the
\* solstice of 2023
C26_Witness ==
    /\ pc = "batch_loop"
    /\ Len(result) = 2
    /\ anchor_solstice = SolsticeEpoch
    /\ ZiPos > 2
    /\ periods[ZiPos - 1].month_number \in 1..12
    /\ periods[ZiPos].month_number = 11

----------------------------------------------------------------------------
(* The lunar year along the numbered periods                               *)

\* the lunar year calculate_lunar_year gives the period at position i
LunarYearAt(i) == calculate_lunar_year(periods[i], anchor_solstice)

\* the position of the first month 1 after position i, or 0
NextFirstMonth(i) ==
    LET later == {j \in (i + 1)..Len(periods) :
                     periods[j].month_number = 1 /\ ~periods[j].is_leap}
    IN  IF later = {} THEN 0 ELSE CHOOSE j \in later : \A k \in later : j <= k

\* C27: along the periods numbered from the Zi month on (both ephemeris
\* queries having succeeded), the lunar year calculate_lunar_year gives never
\* decreases from a period to the next, and a month 11 or 12 is given the
\* lunar year of the month 1 that next follows it - also a month 12 that
\* begins in January.
C27_LunarYearMonotone ==
    (Assigned /\ swallowed = {}) =>
        /\ \A i \in ZiPos..(Len(periods) - 1) : LunarYearAt(i) <= LunarYearAt(i + 1)
        /\ \A i \in ZiPos..Len(periods) :
               (periods[i].month_number \in {11, 12} /\ NextFirstMonth(i) # 0) =>
                   LunarYearAt(i) = LunarYearAt(NextFirstMonth(i))

----------------------------------------------------------------------------
(* The month cycle along the numbered periods                              *)

\* the sexagenary tuple of the month at position i, as solar_to_lunisolar
\* computes it for a target in that period
MonthGanzhiAt(i) == ganzhi_month(LunarYearAt(i), periods[i].month_number)

\* C28: the month's sexagenary cycle is continuous: of two consecutive
\* periods, neither leap, numbered m and (m mod 12) + 1, the month cycle of
\* the second is that of the first plus one (60 followed by 1), each
\* computed with the lunar year calculate_lunar_year gives its period - also
\* from month 10 to 11 and from 12 to 1 (both ephemeris queries having
\* succeeded).
C28_MonthCycleContinuous ==
    (Assigned /\ swallowed = {}) =>
        \A i \in ZiPos..(Len(periods) - 1) :
            (/\ ~periods[i].is_leap /\ ~periods[i + 1].is_leap
             /\ periods[i + 1].month_number = (periods[i].month_number % 12) + 1) =>
                MonthGanzhiAt(i + 1).cycle = (MonthGanzhiAt(i).cycle % 60) + 1

----------------------------------------------------------------------------
(* The Zi hour across local midnight                                       *)

\* C29: the Zi hour is one hour across local midnight: at every offset, the
\* hour stem, branch and cycle of a local time in 23:00-23:59 of a date are
\* those of a local time in 00:00-00:59 of the next date, each computed as
\* the conversion computes them.
C29_ZiHourAcrossMidnight ==
    (call # <<>> /\ call[1].fn = "hour_ganzhi" /\ call[1].returned) =>
        call[1].ret[1] = call[1].ret[2]

----------------------------------------------------------------------------
(* The construction stars of a month table                                 *)

====
